---- MODULE Spec2Model ----
(***************************************************************************)
(* Model of rimbi/transaction-processor (src/src/main.rs).                 *)
(*                                                                         *)
(* TransactionProcessor::read_transactions folds the record stream into a  *)
(* map ClientId -> Client, each Client owning a LinkedHashMap TxId ->      *)
(* Transaction.  Client::get_account folds that map, in iteration order,   *)
(* into an Account.  Amounts are f64 in the source; here they are integer  *)
(* multiples of one unit, and Option<f64> is <<>> (None) or <<v>> (Some).  *)
(***************************************************************************)
EXTENDS Integers, Sequences, FiniteSets, TLC

\* Longest record stream read before the end of input.
MaxRecords == 4

ClientIds == {1, 2}

\* The (client, tx) columns of the rows: client 1 uses three transaction ids,
\* client 2 one, which client 1 uses too.
Targets == {<<1, 1>>, <<1, 2>>, <<1, 3>>, <<2, 1>>}

None == <<>>
Some(v) == <<v>>

\* The (type, amount) columns a CSV row of the stream may carry.
Shapes ==
    {<<"deposit", None>>, <<"deposit", Some(1)>>, <<"deposit", Some(2)>>,
     <<"withdrawal", Some(1)>>, <<"withdrawal", Some(2)>>,
     <<"Deposit", Some(1)>>, <<"transfer", Some(1)>>,
     <<"dispute", None>>, <<"resolve", None>>, <<"Resolve", None>>,
     <<"chargeback", None>>}

\* struct Transaction as deserialized: the serde(skip) flags start false.
Transaction(type, client, tx, amount) ==
    [type |-> type, client |-> client, tx |-> tx, amount |-> amount,
     disputed |-> FALSE, chargeback |-> FALSE]

\* Every row that deserializes into a Transaction.
Records ==
    {Transaction(s[1], ct[1], ct[2], s[2]) : s \in Shapes, ct \in Targets}

\* str::to_lowercase on the type strings of the stream.
to_lowercase(s) ==
    CASE s = "Deposit" -> "deposit"
      [] s = "Resolve" -> "resolve"
      [] OTHER -> s

\* Option::unwrap_or
unwrap_or(opt, d) == IF opt = None THEN d ELSE opt[1]

\* Account::default()
AccountDefault == [available |-> 0, held |-> 0, locked |-> FALSE]

\* Account::total leaving the held amount out.
total_no_held(account) == account.available

\* Account::total
total(account) == account.available + account.held

----------------------------------------------------------------------------
(* LinkedHashMap<TxId, Transaction>, as the sequence of its values in      *)
(* iteration order (oldest entry first).                                   *)

Keys(log) == {log[i].tx : i \in 1..Len(log)}

IndexOf(log, k) == CHOOSE i \in 1..Len(log) : log[i].tx = k

Remove(log, k) == SelectSeq(log, LAMBDA e : e.tx # k)

\* insert as a plain push: an existing key is not looked up, so its old entry
\* stays next to the new one.
insert_push(log, tx) == Append(log, tx)

\* LinkedHashMap::insert: a new key is attached at the back; an existing key
\* has its value replaced and its node detached and re-attached at the back.
insert(log, tx) == Append(Remove(log, tx.tx), tx)

\* Client::new
ClientNew == <<>>

----------------------------------------------------------------------------
(* Client::get_account                                                     *)

\* The "withdrawal" arm: available >= amount guards the subtraction.
withdrawal_strict(account, amount) ==
    IF account.available > amount
    THEN [account EXCEPT !.available = @ - amount]
    ELSE account

\* The "withdrawal" arm without the guard.
withdrawal_unchecked(account, amount) ==
    [account EXCEPT !.available = @ - amount]

\* The "withdrawal" arm with the guard on the total instead of available.
withdrawal_on_total(account, amount) ==
    IF account.available + account.held >= amount
    THEN [account EXCEPT !.available = @ - amount]
    ELSE account

withdrawal(account, amount) ==
    IF account.available >= amount
    THEN [account EXCEPT !.available = @ - amount]
    ELSE account

\* The arms matched on the lowercased type string.
by_type(account, type, amount) ==
    IF type = "deposit" THEN [account EXCEPT !.available = @ + amount]
    ELSE IF type = "withdrawal" THEN withdrawal(account, amount)
    ELSE account

\* fold_step with the disputed guard tried before the chargeback guard, the
\* chargeback then locking on top of it.
fold_step_held_kept(account, tx) ==
    LET amount == unwrap_or(tx.amount, 0)
    IN  IF account.locked THEN account
        ELSE IF tx.disputed
        THEN [account EXCEPT !.held = @ + amount, !.locked = tx.chargeback]
        ELSE IF tx.chargeback THEN [account EXCEPT !.locked = TRUE]
        ELSE by_type(account, to_lowercase(tx.type), amount)

\* fold_step with the chargeback test outside the match: it locks, and the
\* transaction is still matched by its type.
fold_step_cb_counted(account, tx) ==
    LET amount == unwrap_or(tx.amount, 0)
    IN  IF account.locked THEN account
        ELSE IF tx.chargeback
        THEN [by_type(account, to_lowercase(tx.type), amount) EXCEPT !.locked = TRUE]
        ELSE IF tx.disputed THEN [account EXCEPT !.held = @ + amount]
        ELSE by_type(account, to_lowercase(tx.type), amount)

\* fold_step without the early return on account.locked.
fold_step_no_skip(account, tx) ==
    LET amount == unwrap_or(tx.amount, 0)
    IN  IF tx.chargeback THEN [account EXCEPT !.locked = TRUE]
        ELSE IF tx.disputed THEN [account EXCEPT !.held = @ + amount]
        ELSE by_type(account, to_lowercase(tx.type), amount)

\* fold_step with the disputed guard applied to deposits only.
fold_step_held_deposits(account, tx) ==
    LET amount == unwrap_or(tx.amount, 0)
    IN  IF account.locked THEN account
        ELSE IF tx.chargeback THEN [account EXCEPT !.locked = TRUE]
        ELSE IF tx.disputed /\ to_lowercase(tx.type) = "deposit"
        THEN [account EXCEPT !.held = @ + amount]
        ELSE by_type(account, to_lowercase(tx.type), amount)

\* fold_step with the disputed guard missing.
fold_step_no_held(account, tx) ==
    LET amount == unwrap_or(tx.amount, 0)
    IN  IF account.locked THEN account
        ELSE IF tx.chargeback THEN [account EXCEPT !.locked = TRUE]
        ELSE by_type(account, to_lowercase(tx.type), amount)

\* The closure folded over self.tx.iter(): the guards of the match are tried
\* in order, chargeback first.
fold_step(account, tx) ==
    LET amount == unwrap_or(tx.amount, 0)
    IN  IF account.locked THEN account
        ELSE IF tx.chargeback THEN [account EXCEPT !.locked = TRUE]
        ELSE IF tx.disputed THEN [account EXCEPT !.held = @ + amount]
        ELSE by_type(account, to_lowercase(tx.type), amount)

RECURSIVE fold(_, _, _)
fold(account, log, i) ==
    IF i > Len(log) THEN account ELSE fold(fold_step(account, log[i]), log, i + 1)

get_account(log) == fold(AccountDefault, log, 1)

----------------------------------------------------------------------------
(* TransactionProcessor::read_transactions: the closure folded over the    *)
(* deserialized rows.                                                      *)

\* clients.entry(tx.client).or_insert_with(|| Client::new(tx.client))
or_insert(cl, c) == IF c \in DOMAIN cl THEN cl ELSE cl @@ (c :> ClientNew)

\* The "dispute" arm falling back to the newest entry when the id is unknown.
on_dispute_fallback(log, k) ==
    IF k \in Keys(log) THEN [log EXCEPT ![IndexOf(log, k)].disputed = TRUE]
    ELSE IF log # <<>> THEN [log EXCEPT ![Len(log)].disputed = TRUE]
    ELSE log

\* "dispute": get_mut, then disputed = true.
on_dispute(log, k) ==
    IF k \in Keys(log) THEN [log EXCEPT ![IndexOf(log, k)].disputed = TRUE] ELSE log

\* The "resolve" arm with the assignment of the "dispute" arm.
on_resolve_sets(log, k) ==
    IF k \in Keys(log) THEN [log EXCEPT ![IndexOf(log, k)].disputed = TRUE] ELSE log

\* The "resolve" arm clearing both flags.
on_resolve_clears_both(log, k) ==
    IF k \in Keys(log)
    THEN [log EXCEPT ![IndexOf(log, k)].disputed = FALSE,
                     ![IndexOf(log, k)].chargeback = FALSE]
    ELSE log

\* "resolve": get_mut, then disputed = false.
on_resolve(log, k) ==
    IF k \in Keys(log) THEN [log EXCEPT ![IndexOf(log, k)].disputed = FALSE] ELSE log

\* The "chargeback" arm without the test of tx.disputed.
on_chargeback_unchecked(log, k) ==
    IF k \in Keys(log)
    THEN [log EXCEPT ![IndexOf(log, k)].chargeback = TRUE]
    ELSE log

\* "chargeback": get_mut, then chargeback = true if the entry is disputed.
on_chargeback(log, k) ==
    IF k \in Keys(log) /\ log[IndexOf(log, k)].disputed
    THEN [log EXCEPT ![IndexOf(log, k)].chargeback = TRUE]
    ELSE log

\* read_record with the annotation arms looking the id up in every client's
\* log instead of the named client's.
read_record_any_client(cl, tx) ==
    LET cs == or_insert(cl, tx.client)
        type == to_lowercase(tx.type)
    IN  [c \in DOMAIN cs |->
            IF type = "dispute" THEN on_dispute(cs[c], tx.tx)
            ELSE IF type = "resolve" THEN on_resolve(cs[c], tx.tx)
            ELSE IF type = "chargeback" THEN on_chargeback(cs[c], tx.tx)
            ELSE IF c = tx.client THEN insert(cs[c], tx)
            ELSE cs[c]]

\* The body of the closure: the client's entry, then the match on the type.
read_record(cl, tx) ==
    LET cs == or_insert(cl, tx.client)
        log == cs[tx.client]
        type == to_lowercase(tx.type)
    IN  [cs EXCEPT ![tx.client] =
            IF type = "dispute" THEN on_dispute(log, tx.tx)
            ELSE IF type = "resolve" THEN on_resolve(log, tx.tx)
            ELSE IF type = "chargeback" THEN on_chargeback(log, tx.tx)
            ELSE insert(log, tx)]

\* The log of client c in the map cl, empty when the client is not there.
Log(cl, c) == IF c \in DOMAIN cl THEN cl[c] ELSE <<>>

IsType(tx, t) == to_lowercase(tx.type) = t

\* The rows of each kind, by lowercased type.
DisputeRows == {tx \in Records : IsType(tx, "dispute")}
ChargebackRows == {tx \in Records : IsType(tx, "chargeback")}
AnnotationRows ==
    {tx \in Records : to_lowercase(tx.type) \in {"dispute", "resolve", "chargeback"}}
MonetaryRows ==
    {tx \in Records : to_lowercase(tx.type) \in {"deposit", "withdrawal"}}

----------------------------------------------------------------------------
VARIABLES
    clients,  \* TransactionProcessor.clients, being built by read_transactions
    nread,    \* number of rows the reader has yielded (0 once it is dropped)
    pc,       \* "read": in read_transactions; "status": in get_status;
              \* "fold": inside one call of Client::get_account
    cur,      \* the client whose get_account is running (0: none)
    idx,      \* position of the iterator of self.tx.iter()
    account,  \* the fold's accumulator; after the return, the result
    trip,     \* history: the map as it was before the latest dispute of an
              \* undisputed transaction, while the next row resolves it
    prev      \* history: the result of the evaluation of `cur` that came
              \* right before the running one, with the map as it was then

vars == <<clients, nread, pc, cur, idx, account, trip, prev>>

NoPrev == [set |-> FALSE, account |-> AccountDefault, clients |-> <<>>]

NoTrip == [stage |-> "none", base |-> <<>>, client |-> 0, tx |-> 0]

\* The history after the row tx: a dispute of an existing, undisputed
\* transaction opens a round trip, the resolve of that transaction as the very
\* next row closes it, any other row forgets it.
TripAfter(tx) ==
    LET log == Log(clients, tx.client)
    IN  IF /\ IsType(tx, "dispute")
           /\ tx.tx \in Keys(log)
           /\ ~log[IndexOf(log, tx.tx)].disputed
        THEN [stage |-> "disputed", base |-> clients,
              client |-> tx.client, tx |-> tx.tx]
        ELSE IF /\ IsType(tx, "resolve")
                /\ trip.stage = "disputed"
                /\ trip.client = tx.client
                /\ trip.tx = tx.tx
        THEN [trip EXCEPT !.stage = "resolved"]
        ELSE NoTrip

Init ==
    /\ clients = <<>>
    /\ nread = 0
    /\ pc = "read"
    /\ cur = 0
    /\ idx = 0
    /\ account = AccountDefault
    /\ trip = NoTrip
    /\ prev = NoPrev

\* One row of the stream goes through the fold of read_transactions.
ReadRecord(tx) ==
    /\ pc = "read"
    /\ nread < MaxRecords
    /\ clients' = read_record(clients, tx)
    /\ nread' = nread + 1
    /\ trip' = TripAfter(tx)
    /\ UNCHANGED <<pc, cur, idx, account, prev>>

\* The reader is exhausted: read_transactions returns, dropping the reader,
\* and get_status may run.
EndOfStream ==
    /\ pc = "read"
    /\ pc' = "status"
    /\ nread' = 0
    /\ UNCHANGED <<clients, cur, idx, account, trip, prev>>

\* get_status (or a test) calls client.get_account() on one client.
GetAccountCall(c) ==
    /\ pc = "status"
    /\ c \in DOMAIN clients
    /\ pc' = "fold"
    /\ cur' = c
    /\ idx' = 1
    /\ account' = AccountDefault
    /\ UNCHANGED <<clients, nread, trip, prev>>

\* One iteration of the fold in get_account.
FoldStep ==
    /\ pc = "fold"
    /\ idx <= Len(clients[cur])
    /\ account' = fold_step(account, clients[cur][idx])
    /\ idx' = idx + 1
    /\ UNCHANGED <<clients, nread, pc, cur, trip, prev>>

\* The iterator is exhausted: get_account returns the accumulator.
GetAccountReturn ==
    /\ pc = "fold"
    /\ idx > Len(clients[cur])
    /\ pc' = "status"
    /\ UNCHANGED <<clients, nread, cur, idx, account, trip, prev>>

\* The arguments get_status formats into the line of the client whose
\* get_account has just returned.
StatusLine ==
    [client |-> cur, available |-> account.available, held |-> account.held,
     total |-> total(account), locked |-> account.locked]

Next ==
    \/ \E tx \in Records : ReadRecord(tx)
    \/ EndOfStream
    \/ \E c \in ClientIds : GetAccountCall(c)
    \/ FoldStep
    \/ GetAccountReturn

Spec == Init /\ [][Next]_vars

\* get_account called on client c with the accumulator of the last call
\* carried over instead of a fresh Account::default().
GetAccountAgain_carried(c) ==
    /\ pc = "status"
    /\ c \in DOMAIN clients
    /\ pc' = "fold"
    /\ cur' = c
    /\ idx' = 1
    /\ account' = account
    /\ prev' = IF cur = c
               THEN [set |-> TRUE, account |-> account, clients |-> clients]
               ELSE NoPrev
    /\ UNCHANGED <<clients, nread, trip>>

\* client.get_account() called on client c, remembering, when c is the
\* client evaluated last, what that evaluation returned.
GetAccountAgain(c) ==
    /\ pc = "status"
    /\ c \in DOMAIN clients
    /\ pc' = "fold"
    /\ cur' = c
    /\ idx' = 1
    /\ account' = AccountDefault
    /\ prev' = IF cur = c
               THEN [set |-> TRUE, account |-> account, clients |-> clients]
               ELSE NoPrev
    /\ UNCHANGED <<clients, nread, trip>>

\* The same program, with the history of repeated evaluations kept.
NextTwice ==
    \/ \E tx \in Records : ReadRecord(tx)
    \/ EndOfStream
    \/ \E c \in ClientIds : GetAccountAgain(c)
    \/ FoldStep
    \/ GetAccountReturn

SpecTwice == Init /\ [][NextTwice]_vars

----------------------------------------------------------------------------
(* Properties                                                              *)

\* Every client other than c has the log it had.
OthersKept(c) ==
    /\ DOMAIN clients \subseteq DOMAIN clients'
    /\ \A d \in DOMAIN clients' \ {c} : d \in DOMAIN clients /\ clients'[d] = clients[d]

\* get_account has returned for client c and `account` holds its result.
Returned(c) == pc = "status" /\ cur = c

\* C1: a chargeback row is accepted only against a transaction that is in the
\* named client's log with disputed = true when the row is processed; then its
\* chargeback flag becomes true and nothing else changes.  In every other case
\* (unknown id, never disputed, disputed and resolved) no transaction changes
\* and the row does not lock the evaluated account.
C1_ChargebackNeedsDispute ==
    [][\A tx \in ChargebackRows :
          ReadRecord(tx) =>
              LET c == tx.client
                  before == Log(clients, c)
                  hit == {i \in 1..Len(before) :
                             before[i].tx = tx.tx /\ before[i].disputed}
              IN  /\ OthersKept(c)
                  /\ IF hit # {}
                     THEN \A i \in hit :
                              clients'[c] = [before EXCEPT ![i].chargeback = TRUE]
                     ELSE /\ clients'[c] = before
                          /\ get_account(clients'[c]).locked
                                 = get_account(before).locked]_vars

\* A chargeback was accepted: a disputed transaction carries the flag, and the
\* client's evaluation has returned a locked account.
C1_Witness ==
    \E c \in DOMAIN clients :
        /\ Returned(c)
        /\ account.locked
        /\ \E i \in 1..Len(clients[c]) :
               clients[c][i].chargeback /\ clients[c][i].disputed

\* The log left by deposit(client 1, tx 1, amount 1), dispute(1,1),
\* chargeback(1,1).
ScenarioLog ==
    << [type |-> "deposit", client |-> 1, tx |-> 1, amount |-> Some(1),
        disputed |-> TRUE, chargeback |-> TRUE] >>

\* Position of the first charged-back transaction of a log (0: none).
FirstChargeback(log) ==
    IF \E i \in 1..Len(log) : log[i].chargeback
    THEN CHOOSE i \in 1..Len(log) :
             log[i].chargeback /\ \A j \in 1..(i - 1) : ~log[j].chargeback
    ELSE 0

\* Sum of the amounts of the disputed, not charged-back transactions among
\* the first n of a log.
RECURSIVE DisputedSum(_, _)
DisputedSum(log, n) ==
    IF n = 0 THEN 0
    ELSE DisputedSum(log, n - 1)
         + (IF log[n].disputed /\ ~log[n].chargeback
            THEN unwrap_or(log[n].amount, 0) ELSE 0)

\* C2 as stated: deposit(1,1,1), dispute(1,1), chargeback(1,1) evaluates to
\* available 0, held 1, locked; in general the amount of the charged-back
\* transaction that locks the account is counted in held.
C2_HeldKeptOnChargeback ==
    \A c \in DOMAIN clients :
        Returned(c) =>
            LET log == clients[c]
                k == FirstChargeback(log)
            IN  /\ log = ScenarioLog =>
                       account = [available |-> 0, held |-> 1, locked |-> TRUE]
                /\ k > 0 =>
                       account.held = DisputedSum(log, k - 1)
                                      + unwrap_or(log[k].amount, 0)

\* C2 amended: deposit(1,1,1), dispute(1,1), chargeback(1,1) evaluates to
\* available 0, held 0, locked; in general the amount of a charged-back
\* transaction is not counted in held: held is the sum of the disputed, not
\* charged-back transactions that precede the first charged-back one.
C2_HeldDroppedOnChargeback ==
    \A c \in DOMAIN clients :
        Returned(c) =>
            LET log == clients[c]
                k == FirstChargeback(log)
            IN  /\ log = ScenarioLog =>
                       account = [available |-> 0, held |-> 0, locked |-> TRUE]
                /\ k > 0 => account.held = DisputedSum(log, k - 1)

\* Client 1, holding exactly the scenario's log, has been evaluated.
C2_Witness ==
    /\ Returned(1)
    /\ clients[1] = ScenarioLog
    /\ account.locked

\* C3: a transaction whose chargeback flag is set adds nothing to available
\* or held when the fold reaches it, it only sets locked (which may be set
\* already); a log that holds one charged-back transaction and nothing else
\* evaluates to 0, 0, locked.
C3_ChargedBackContributesNothing ==
    /\ [][(FoldStep /\ clients[cur][idx].chargeback) =>
              account' = [account EXCEPT !.locked = TRUE]]_vars
    /\ [](\A c \in DOMAIN clients :
              (Returned(c) /\ Len(clients[c]) = 1 /\ clients[c][1].chargeback) =>
                  account = [available |-> 0, held |-> 0, locked |-> TRUE])

\* The fold has just passed a charged-back deposit of 2 that follows a
\* deposit of 1: available is 1, held 0, locked.
C3_Witness ==
    /\ pc = "fold"
    /\ idx = 3
    /\ clients[cur][2].chargeback
    /\ clients[cur][2].amount = Some(2)
    /\ ~clients[cur][1].chargeback
    /\ account = [available |-> 1, held |-> 0, locked |-> TRUE]

\* C4: an undisputed, not charged-back withdrawal reached while the account
\* is not locked subtracts its amount from available iff available >= amount;
\* otherwise the account is unchanged, and the fold goes on to the next
\* transaction either way.
C4_WithdrawalIffCovered ==
    [][(/\ FoldStep
        /\ ~account.locked
        /\ ~clients[cur][idx].chargeback
        /\ ~clients[cur][idx].disputed
        /\ IsType(clients[cur][idx], "withdrawal")) =>
           LET amount == unwrap_or(clients[cur][idx].amount, 0)
           IN  /\ account.available >= amount =>
                      account' = [account EXCEPT !.available = @ - amount]
               /\ account.available < amount => account' = account
               /\ pc' = "fold"
               /\ idx' = idx + 1]_vars

\* The fold has just applied a withdrawal of exactly the available balance.
C4_Witness ==
    /\ pc = "fold"
    /\ idx = 3
    /\ clients[cur][1].amount = Some(2)
    /\ IsType(clients[cur][1], "deposit")
    /\ IsType(clients[cur][2], "withdrawal")
    /\ clients[cur][2].amount = Some(2)
    /\ ~clients[cur][1].disputed /\ ~clients[cur][2].disputed
    /\ account = AccountDefault


\* The dispute row tx, just read, names a deposit of its client's log that was
\* undisputed, at position i, in a log without any charged-back transaction.
DisputesDeposit(tx, i) ==
    LET before == Log(clients, tx.client)
    IN  /\ pc = "read"
        /\ i \in 1..Len(before)
        /\ before[i].tx = tx.tx
        /\ ~before[i].disputed
        /\ IsType(before[i], "deposit")
        /\ FirstChargeback(before) = 0
        /\ ReadRecord(tx)

C6_DisputeResolveRoundTrip ==
    trip.stage = "resolved" =>
        /\ clients = trip.base
        /\ get_account(clients[trip.client]) = get_account(trip.base[trip.client])
        /\ Returned(trip.client) => account = get_account(trip.base[trip.client])

\* A dispute and its resolve were the last two rows, on a transaction of a log
\* of two, and the client's evaluation has returned a balance.
C6_Witness ==
    /\ trip.stage = "resolved"
    /\ Returned(trip.client)
    /\ Len(clients[trip.client]) = 2
    /\ account.available > 0

\* C7: once the fold of one evaluation has reached a charged-back transaction
\* and set locked, every later transaction leaves the accumulator unchanged,
\* whatever its kind, amount or flags; so a locked accumulator is the fold of
\* the transactions before the first charged-back one, locked.
C7_LockedSkipsRest ==
    /\ [][(FoldStep /\ account.locked) => account' = account]_vars
    /\ []((cur # 0 /\ account.locked) =>
              LET log == clients[cur]
                  k == FirstChargeback(log)
              IN  /\ k > 0
                  /\ k < idx
                  /\ account = [get_account(SubSeq(log, 1, k - 1))
                                   EXCEPT !.locked = TRUE])

\* The fold has passed a charged-back transaction and then an undisputed
\* deposit, which it skipped.
C7_Witness ==
    /\ pc = "fold"
    /\ idx = 3
    /\ clients[cur][1].chargeback
    /\ IsType(clients[cur][2], "deposit")
    /\ clients[cur][2].amount = Some(2)
    /\ ~clients[cur][2].disputed /\ ~clients[cur][2].chargeback
    /\ account = [available |-> 0, held |-> 0, locked |-> TRUE]

\* C8 as stated: if a client's account evaluates to locked after a prefix of
\* the stream, it evaluates to locked after every longer prefix, whatever row
\* follows.
C8_LockedSticky ==
    [][\A c \in DOMAIN clients :
          get_account(clients[c]).locked => get_account(clients'[c]).locked]_vars

\* The row tx, just read, changed no log, and so no evaluated account: at
\* most it created its client, with an empty log.
RowAbsorbed(tx) ==
    /\ OthersKept(tx.client)
    /\ clients'[tx.client] = Log(clients, tx.client)
    /\ get_account(clients'[tx.client]) = get_account(Log(clients, tx.client))

KnownTypes == {"deposit", "withdrawal", "dispute", "resolve", "chargeback"}

\* C9 as stated: a row whose type, lowercased, is none of deposit, withdrawal,
\* dispute, resolve, chargeback adds, replaces and reorders no transaction
\* and leaves every evaluated account as it was.
C9_UnknownTypeIgnored ==
    [][\A tx \in Records :
          (to_lowercase(tx.type) \notin KnownTypes /\ ReadRecord(tx)) =>
              RowAbsorbed(tx)]_vars

\* C10 as stated: a deposit or withdrawal row without an amount inserts no
\* transaction and replaces or reorders none, leaving every evaluated account
\* as it was.
C10_MissingAmountDropped ==
    [][\A tx \in Records :
          (/\ to_lowercase(tx.type) \in {"deposit", "withdrawal"}
           /\ tx.amount = None
           /\ ReadRecord(tx)) => RowAbsorbed(tx)]_vars


\* C11: a dispute, resolve or chargeback row whose transaction id is not in
\* the named client's log changes no transaction of any log and raises no
\* error (the read goes on); at most it creates the named client, with an
\* empty log.  A transaction that enters a log starts undisputed and not
\* charged back, whatever rows named its id before.
C11_UnknownIdAbsorbed ==
    /\ [][\A tx \in AnnotationRows :
             (/\ pc = "read"
              /\ tx.tx \notin Keys(Log(clients, tx.client))
              /\ ReadRecord(tx)) =>
                 /\ OthersKept(tx.client)
                 /\ clients'[tx.client] = Log(clients, tx.client)
                 /\ pc' = "read"]_vars
    /\ [][(pc = "read" /\ nread' = nread + 1) =>
             \A c \in DOMAIN clients' : \A i \in 1..Len(clients'[c]) :
                 clients'[c][i].tx \notin Keys(Log(clients, c)) =>
                     /\ ~clients'[c][i].disputed
                     /\ ~clients'[c][i].chargeback]_vars

\* Client 2 was created, with an empty log, by a row that names a transaction
\* id it does not hold, while client 1 holds an undisputed transaction with
\* that id.
C11_Witness ==
    /\ DOMAIN clients = {1, 2}
    /\ clients[2] = <<>>
    /\ Len(clients[1]) = 1
    /\ clients[1][1].tx = 1
    /\ ~clients[1][1].disputed

\* The rows that name each client.
RowsOfClient == [c \in ClientIds |-> {tx \in Records : tx.client = c}]

\* Client b has just been created, or its log, which is all its evaluated
\* account depends on, differs across the step.
Touched(b) ==
    \/ (b \in DOMAIN clients) # (b \in DOMAIN clients')
    \/ Log(clients, b) # Log(clients', b)

\* C12: a row that names client A changes the log, and so the evaluated
\* account, of no other client B, also when its transaction id is the id of a
\* transaction of B: a step that touches B is the read of no row that names
\* another client.
C12_ClientsIsolated ==
    [][pc = "read" =>
          \A b \in ClientIds :
              Touched(b) =>
                  \A a \in ClientIds \ {b} : \A tx \in RowsOfClient[a] :
                      ~ReadRecord(tx)]_vars

\* Both clients hold a transaction with id 1; client 1's is disputed and
\* charged back, client 2's is untouched, and client 2 evaluates unlocked.
C12_Witness ==
    /\ DOMAIN clients = {1, 2}
    /\ Returned(2)
    /\ \E i \in 1..Len(clients[1]) :
           clients[1][i].tx = 1 /\ clients[1][i].chargeback
    /\ clients[2] # <<>>
    /\ clients[2][1].tx = 1
    /\ ~clients[2][1].disputed /\ ~clients[2][1].chargeback
    /\ account = [available |-> 1, held |-> 0, locked |-> FALSE]


\* C13: evaluating a client changes no log, and two evaluations of the same
\* client with no row read in between return the same available, held and
\* locked: while and after a client is evaluated again, the map is the one
\* the previous evaluation saw, and the second result is the first.
C13_EvaluationIdempotent ==
    prev.set =>
        /\ clients = prev.clients
        /\ Returned(cur) => account = prev.account

\* A client with a balance, a held amount or a lock has been evaluated twice
\* in a row and the second evaluation has returned.
C13_Witness ==
    /\ prev.set
    /\ pc = "status"
    /\ Len(clients[cur]) >= 2
    /\ account.available > 0
    /\ account.held > 0


\* A log as a stream of deposit and withdrawal rows alone leaves it: every
\* entry is a deposit or a withdrawal with both flags false.  (Each such log
\* is what the stream of its own entries, in order, builds.)
MonetaryOnly(log) ==
    \A i \in 1..Len(log) :
        /\ to_lowercase(log[i].type) \in {"deposit", "withdrawal"}
        /\ ~log[i].disputed
        /\ ~log[i].chargeback

\* Among the first n entries of a log: the sum of the deposits, and the sum
\* of the withdrawals whose amount did not exceed the balance (deposits less
\* accepted withdrawals) of the entries before them.
RECURSIVE DepositSum(_, _)
DepositSum(log, n) ==
    IF n = 0 THEN 0
    ELSE DepositSum(log, n - 1)
         + (IF IsType(log[n], "deposit") THEN unwrap_or(log[n].amount, 0) ELSE 0)

RECURSIVE AcceptedWithdrawalSum(_, _)
AcceptedWithdrawalSum(log, n) ==
    IF n = 0 THEN 0
    ELSE LET before == AcceptedWithdrawalSum(log, n - 1)
             amount == unwrap_or(log[n].amount, 0)
         IN  IF /\ IsType(log[n], "withdrawal")
                /\ amount <= DepositSum(log, n - 1) - before
             THEN before + amount
             ELSE before

\* C14: for a stream of deposit and withdrawal rows only, a client's
\* available is the sum of the deposits of its log less the sum of those
\* withdrawals of its log whose amount did not exceed the running available
\* balance in fold order; held is 0 and locked is false.
C14_DepositsLessAcceptedWithdrawals ==
    \A c \in DOMAIN clients :
        (Returned(c) /\ MonetaryOnly(clients[c])) =>
            LET log == clients[c]
            IN  account = [available |-> DepositSum(log, Len(log))
                                           - AcceptedWithdrawalSum(log, Len(log)),
                           held |-> 0,
                           locked |-> FALSE]

\* A log of a deposit of 1, a withdrawal of 2 (rejected) and a withdrawal of
\* 1 (accepted) has been evaluated to available 0.
C14_Witness ==
    \E c \in DOMAIN clients :
        /\ Returned(c)
        /\ MonetaryOnly(clients[c])
        /\ Len(clients[c]) = 3
        /\ IsType(clients[c][1], "deposit") /\ clients[c][1].amount = Some(1)
        /\ IsType(clients[c][2], "withdrawal") /\ clients[c][2].amount = Some(2)
        /\ IsType(clients[c][3], "withdrawal") /\ clients[c][3].amount = Some(1)
        /\ account = AccountDefault

\* C15: the total that get_status reports for a client is available + held
\* of the account that the same call of get_account returned, locked or not.
C15_TotalIsAvailablePlusHeld ==
    \A c \in DOMAIN clients :
        Returned(c) =>
            /\ StatusLine.total = StatusLine.available + StatusLine.held
            /\ StatusLine.available = get_account(clients[c]).available
            /\ StatusLine.held = get_account(clients[c]).held
            /\ StatusLine.locked = get_account(clients[c]).locked

\* The line of a locked account with a balance is being formatted.
C15_Witness ==
    /\ cur # 0
    /\ Returned(cur)
    /\ StatusLine.locked
    /\ StatusLine.available > 0
    /\ StatusLine.total = StatusLine.available


\* The deposit and withdrawal rows that name each (client, tx) pair.
MonetaryRowsAt ==
    [ct \in ClientIds \X {1, 2, 3} |->
        {tx \in MonetaryRows : tx.client = ct[1] /\ tx.tx = ct[2]}]

\* C16: a deposit or withdrawal row whose transaction id is already in its
\* client's log leaves the log with as many transactions as before and
\* exactly one for that id, which has the row's kind and amount and both
\* flags false, whatever the flags of the one it replaced.  Stated of the
\* closure of read_transactions applied to every map the read can reach.
C16_DuplicateIdLastWriteWins ==
    pc = "read" =>
        \A c \in DOMAIN clients : \A k \in Keys(clients[c]) :
        \A tx \in MonetaryRowsAt[<<c, k>>] :
            LET after == read_record(clients, tx)[c]
                at == {i \in 1..Len(after) : after[i].tx = k}
            IN  /\ Len(after) = Len(clients[c])
                /\ Cardinality(at) = 1
                /\ \A i \in at :
                       /\ after[i].type = tx.type
                       /\ after[i].amount = tx.amount
                       /\ ~after[i].disputed
                       /\ ~after[i].chargeback

\* The state that deposit, dispute, chargeback and then a withdrawal of 2
\* with the same id leave: one transaction, the withdrawal, no flag set.
C16_Witness ==
    /\ pc = "read"
    /\ nread = 4
    /\ DOMAIN clients = {1}
    /\ clients[1] = << Transaction("withdrawal", 1, 1, Some(2)) >>

\* C17 as stated: the fold order of a log is the order in which its
\* transaction ids were first created: no row moves a transaction that is in
\* a log, a new transaction goes to the end.
C17_FirstCreationOrder ==
    [][(pc = "read" /\ nread' = nread + 1) =>
          \A c \in DOMAIN clients : \A i \in 1..Len(clients[c]) :
              /\ i <= Len(clients'[c])
              /\ clients'[c][i].tx = clients[c][i].tx]_vars

\* C18: a disputed, not charged-back transaction reached while the account
\* is not locked adds its amount to held and leaves available and locked
\* alone, whatever its kind: a disputed withdrawal is neither subtracted nor
\* checked against the balance.
C18_DisputedGoesToHeld ==
    [][(/\ FoldStep
        /\ ~account.locked
        /\ clients[cur][idx].disputed
        /\ ~clients[cur][idx].chargeback) =>
           account' = [account EXCEPT
                          !.held = @ + unwrap_or(clients[cur][idx].amount, 0)]]_vars

\* The fold has passed a disputed withdrawal of 2 on an empty balance.
C18_Witness ==
    /\ pc = "fold"
    /\ idx = 2
    /\ IsType(clients[cur][1], "withdrawal")
    /\ clients[cur][1].disputed
    /\ account = [available |-> 0, held |-> 2, locked |-> FALSE]

\* No stored amount of the log is negative.
NonNegative(log) ==
    \A i \in 1..Len(log) : unwrap_or(log[i].amount, 0) >= 0

SomeChargedBack ==
    \E c \in DOMAIN clients : \E i \in 1..Len(clients[c]) : clients[c][i].chargeback

\* C20: once a chargeback has been accepted, a dispute, resolve or chargeback
\* row clears no chargeback flag (a resolve of the charged-back transaction
\* clears its disputed flag only) and leaves every locked account locked.
C20_AnnotationsKeepChargeback ==
    [][(pc = "read" /\ SomeChargedBack) =>
          \A tx \in AnnotationRows :
              ReadRecord(tx) =>
                  \A c \in DOMAIN clients :
                      /\ Len(clients'[c]) = Len(clients[c])
                      /\ \A i \in 1..Len(clients[c]) :
                             clients[c][i].chargeback =>
                                 /\ clients'[c][i].tx = clients[c][i].tx
                                 /\ clients'[c][i].chargeback
                                 /\ (IsType(tx, "resolve")
                                     /\ tx.client = c
                                     /\ tx.tx = clients[c][i].tx) =>
                                        ~clients'[c][i].disputed
                      /\ get_account(clients[c]).locked =>
                             get_account(clients'[c]).locked]_vars

\* A charged-back transaction has been resolved: it is charged back and not
\* disputed, and its client evaluates locked.
C20_Witness ==
    \E c \in DOMAIN clients :
        /\ Returned(c)
        /\ account.locked
        /\ \E i \in 1..Len(clients[c]) :
               clients[c][i].chargeback /\ ~clients[c][i].disputed

====
